---- MODULE Spec2Model ----
(***************************************************************************)
(* The hotkey settings manager of the account settings page                *)
(* (HotkeysManager in Hotkeys/Key.tsx): the local React state, the async   *)
(* handlers with the values their closures captured, the requests in       *)
(* flight and the remote store they are sent to.                           *)
(***************************************************************************)
EXTENDS Integers, Sequences, FiniteSets, TLC

\* ------------------------------------------------------------------ bounds
\* user actions (toggle, apply key, save, reset, import) in one session
MaxActions == 2
\* length of the default list handed to the merge function on its own
MaxMergeLen == 2
MaxModals == 2

\* --------------------------------------------------------------- constants
None == "none"                          \* undefined / null
EmptyMap == [k \in {} |-> None]         \* the object {}

Range(s) == {s[i] : i \in DOMAIN s}

\* interface Hotkey; description/subgroup are display-only and left out
Hotkey(id, section, element, label, key, active) ==
  [id |-> id, section |-> section, element |-> element, label |-> label,
   key |-> key, mac |-> None, active |-> active]

\* DEFAULT_HOTKEYS and HOTKEY_SECTIONS: the compiled-in catalogs, a small instance
typedDefaultHotkeys ==
  << Hotkey("undo", "annotation", "undo", "Undo", "ctrl+z", TRUE),
     Hotkey("redo", "annotation", "redo", "Redo", "ctrl+y", TRUE),
     Hotkey("del", "regions", "delete", "Delete", "backspace", TRUE) >>

typedHotkeySections == {"annotation", "regions"}

\* the combinations the user records in this session
RecordedKeys == {"ctrl+z", "a"}

\* `${hotkey.section}:${hotkey.element}`
LookupKey(hotkey) == <<hotkey.section, hotkey.element>>

\* ------------------------------------------------------------ pure helpers
\* a plausible slip: the description field is not filled in
RECURSIVE ToCustomHotkeys_NoDescription(_)
ToCustomHotkeys_NoDescription(currentHotkeys) ==
  IF currentHotkeys = <<>> THEN EmptyMap
  ELSE LET n == Len(currentHotkeys)
           hotkey == currentHotkeys[n]
           prev == ToCustomHotkeys_NoDescription(SubSeq(currentHotkeys, 1, n - 1))
       IN [keyId \in DOMAIN prev \cup {LookupKey(hotkey)} |->
             IF keyId = LookupKey(hotkey)
             THEN [key |-> hotkey.key, active |-> hotkey.active, description |-> ""]
             ELSE prev[keyId]]

\* the forEach of saveHotkeysToAPI: a later binding overwrites an earlier entry
RECURSIVE ToCustomHotkeys(_)
ToCustomHotkeys(currentHotkeys) ==
  IF currentHotkeys = <<>> THEN EmptyMap
  ELSE LET n == Len(currentHotkeys)
           hotkey == currentHotkeys[n]
           prev == ToCustomHotkeys(SubSeq(currentHotkeys, 1, n - 1))
       IN [keyId \in DOMAIN prev \cup {LookupKey(hotkey)} |->
             IF keyId = LookupKey(hotkey)
             THEN [key |-> hotkey.key, active |-> hotkey.active,
                   description |-> hotkey.label]
             ELSE prev[keyId]]

\* a plausible slip: an empty list does not force the default settings
RequestBody_KeepsSettings(currentHotkeys, currentSettings) ==
  [custom_hotkeys |-> ToCustomHotkeys(currentHotkeys),
   hotkey_settings |-> currentSettings]

\* a plausible slip: disabled bindings are left out of the map
RequestBody_ActiveOnly(currentHotkeys, currentSettings) ==
  [custom_hotkeys |->
     ToCustomHotkeys(SelectSeq(currentHotkeys, LAMBDA hotkey : hotkey.active)),
   hotkey_settings |-> IF Len(currentHotkeys) = 0
                       THEN [autoTranslatePlatforms |-> TRUE]
                       ELSE currentSettings]

\* the request body saveHotkeysToAPI builds
RequestBody(currentHotkeys, currentSettings) ==
  [custom_hotkeys |-> ToCustomHotkeys(currentHotkeys),
   hotkey_settings |-> IF Len(currentHotkeys) = 0
                       THEN [autoTranslatePlatforms |-> TRUE]
                       ELSE currentSettings]

\* a plausible slip: the override's key is applied, its active flag is not
MergeOne_KeyOnly(hotkey, customHotkeys) ==
  IF LookupKey(hotkey) \in DOMAIN customHotkeys
  THEN [hotkey EXCEPT !.key = customHotkeys[LookupKey(hotkey)].key]
  ELSE hotkey

\* one element of the map of updateHotkeysWithCustomSettings
MergeOne(hotkey, customHotkeys) ==
  IF LookupKey(hotkey) \in DOMAIN customHotkeys
  THEN LET customSetting == customHotkeys[LookupKey(hotkey)]
       IN [hotkey EXCEPT !.key = customSetting.key,
                         !.active = customSetting.active,
                         !.label = IF customSetting.description # ""
                                   THEN customSetting.description ELSE @]
  ELSE hotkey

updateHotkeysWithCustomSettings(defaultHotkeys, customHotkeys) ==
  [i \in DOMAIN defaultHotkeys |-> MergeOne(defaultHotkeys[i], customHotkeys)]

\* JSON.stringify / JSON.parse of handleExportHotkeys's exportData (exportedAt and
\* version are not read back by the import). A file is read as: isArray, the list
\* (hotkeys || [], so a missing list is the empty one) and the set holding
\* settings.autoTranslatePlatforms when it is defined.
ExportData(list, auto) ==
  [isArray |-> FALSE, hotkeys |-> list, settingsAuto |-> {auto}]

\* a legacy file: a bare list, with two records for the same section:element
ForeignHotkeys ==
  << [Hotkey("undo", "annotation", "undo", "Undo", "a", FALSE) EXCEPT !.mac = "a"],
     Hotkey("undo2", "annotation", "undo", "Undo", "ctrl+z", TRUE) >>

\* the files the user imports: the export of the current state, a legacy list,
\* an envelope that carries settings only
ImportFiles(list, auto) ==
  { ExportData(list, auto),
    [isArray |-> TRUE, hotkeys |-> ForeignHotkeys, settingsAuto |-> {}],
    [isArray |-> FALSE, hotkeys |-> <<>>, settingsAuto |-> {FALSE}] }

\* outcomes of api.callApi("updateHotkeys"): a response, or an exception
StoredOutcomes == { [type |-> "ok", status |-> None, error |-> None] }
RefusedOutcomes ==
  { [type |-> "error", status |-> None, error |-> "Invalid hotkey"],
    [type |-> "throw", status |-> "400", error |-> "Bad key"],
    [type |-> "throw", status |-> "400", error |-> None],
    [type |-> "throw", status |-> "401", error |-> None],
    [type |-> "throw", status |-> "500", error |-> None],
    [type |-> "throw", status |-> "request", error |-> None] }

\* what saveHotkeysToAPI settles with, lines 170-215. The catch block reads the
\* undeclared name isReset in its first statement, which throws a ReferenceError
\* out of the block: the promise rejects and the message mapping is never run.
SaveResult(outcome) ==
  CASE outcome.type = "ok" ->
         [settled |-> "returned", ok |-> TRUE, error |-> None]
    [] outcome.type = "error" ->
         [settled |-> "returned", ok |-> FALSE, error |-> outcome.error]
    [] OTHER ->
         [settled |-> "rejected", ok |-> FALSE, error |-> "isReset is not defined"]

NotSettled == [settled |-> "none", ok |-> FALSE, error |-> None]

\* ------------------------------------------------------------------- state
VARIABLES
  hotkeys,                  \* useState<Hotkey[]>
  isLoading,                \* useState<boolean>
  globalEnabled,            \* useState<boolean>
  dirtyState,               \* useState<DirtyState>: the section ids set to true
  autoTranslatePlatforms,   \* useState<boolean>
  duplicateConfirmDialog,   \* useState<DuplicateConfirmDialog>
  toast,                    \* the notifications shown by the last step
  saveSettled,              \* how saveHotkeysToAPI settled in the last step
  confirmAnswer,            \* the answer to confirm() in the last step
  ops,                      \* async handlers suspended at an await
  server,                   \* the remote store behind hotkeys / updateHotkeys
  appSettings,              \* window.APP_SETTINGS.user
  mounted,                  \* the mount effect has run
  nact,                     \* user actions so far
  mergeIn, mergeOut,        \* input and result of the merge function on its own
  mergeDone,
  isEditing,                \* HotkeyItem prop: the item is in edit mode
  editedKey,                \* HotkeyItem useState<string>
  keyRecordingMode,         \* HotkeyItem useState<boolean>
  pressed,                  \* the modifier keys held down, in the order pressed
  helpModals,               \* the modals openHotkeyHelp has created, in order
  bodyChildren,             \* the modal containers attached to document.body
  keydownListeners,         \* the handleEscKey listeners registered on document
  windowLocation,           \* window.location.pathname + window.location.search
  helpError                 \* the exception the last call into the modal code raised

\* editingHotkeyId is left out: the handlers below only write it, and entering or
\* leaving the edit mode of an item changes no other state
localVars == <<hotkeys, isLoading, globalEnabled, dirtyState,
               autoTranslatePlatforms, duplicateConfirmDialog>>
envVars == <<appSettings, mounted>>
mergeVars == <<mergeIn, mergeOut, mergeDone>>
itemVars == <<isEditing, editedKey, keyRecordingMode, pressed>>
helpVars == <<helpModals, bodyChildren, keydownListeners, windowLocation, helpError>>
vars == <<localVars, toast, saveSettled, confirmAnswer, ops, server, envVars, nact,
          mergeVars, itemVars, helpVars>>

ClosedDialog ==
  [open |-> FALSE, hotkeyId |-> None, newKey |-> None, conflictingHotkeys |-> <<>>]

\* a stored override map the server may hold when the session starts
StoredOverrides ==
  (<<"annotation", "undo">> :>
     [key |-> "a", active |-> FALSE, description |-> "Undo last"])

\* window.APP_SETTINGS.user: absent (customHotkeys || {} is then the empty map,
\* hotkeySettings the empty set), or a cached copy without descriptions
CachedOverrides ==
  (<<"regions", "delete">> :> [key |-> "a", active |-> TRUE, description |-> ""])

\* a first session (nothing stored, nothing cached) and a later one
SessionInits ==
  << [server |-> [custom_hotkeys |-> EmptyMap,
                  hotkey_settings |-> [autoTranslatePlatforms |-> TRUE]],
      appSettings |-> [customHotkeys |-> EmptyMap, autoTranslatePlatforms |-> {}]],
     [server |-> [custom_hotkeys |-> StoredOverrides,
                  hotkey_settings |-> [autoTranslatePlatforms |-> FALSE]],
      appSettings |-> [customHotkeys |-> CachedOverrides,
                       autoTranslatePlatforms |-> {FALSE}]] >>

ManagerInit ==
  /\ hotkeys = <<>>
  /\ isLoading = FALSE
  /\ globalEnabled = TRUE
  /\ dirtyState = {}
  /\ autoTranslatePlatforms = TRUE
  /\ duplicateConfirmDialog = ClosedDialog
  /\ toast = <<>>
  /\ saveSettled = NotSettled
  /\ confirmAnswer = None
  /\ ops = {}
  /\ \E i \in DOMAIN SessionInits :
       server = SessionInits[i].server /\ appSettings = SessionInits[i].appSettings
  /\ mounted = FALSE
  /\ nact = 0

NoMerge == [defaultHotkeys |-> <<>>, customHotkeys |-> EmptyMap]

\* the item of the first binding of the catalog, as HotkeyItem's useState calls
\* leave it: not in edit mode, no key held
ItemInit ==
  /\ isEditing = FALSE
  /\ editedKey = typedDefaultHotkeys[1].key
  /\ keyRecordingMode = FALSE
  /\ pressed = <<>>

\* no help modal has been opened; the page is the hotkey settings page
HelpInit ==
  /\ helpModals = <<>>
  /\ bodyChildren = {}
  /\ keydownListeners = <<>>
  /\ windowLocation = "/user/account/hotkeys"
  /\ helpError = None

Init ==
  /\ ManagerInit
  /\ mergeIn = NoMerge
  /\ mergeOut = <<>>
  /\ mergeDone = FALSE
  /\ ItemInit
  /\ HelpInit

\* ---------------------------------------------------------------- rendering
\* the sections and their items are rendered unless the skeleton is shown
SectionsShown == ~(isLoading /\ Len(hotkeys) = 0)

\* the duplicate dialog is modal: while it is open only its buttons can be used
UserCanAct == mounted /\ ~duplicateConfirmDialog.open /\ nact < MaxActions

\* an item of the list is rendered by the section it belongs to
Rendered(hotkeyId) ==
  /\ SectionsShown
  /\ \E i \in DOMAIN hotkeys :
       hotkeys[i].id = hotkeyId /\ hotkeys[i].section \in typedHotkeySections

\* hotkeys.find((h) => h.id === hotkeyId), given that one exists
Find(hotkeyId) ==
  hotkeys[CHOOSE i \in DOMAIN hotkeys :
            /\ hotkeys[i].id = hotkeyId
            /\ \A j \in DOMAIN hotkeys : hotkeys[j].id = hotkeyId => i <= j]

Silent == toast' = <<>> /\ saveSettled' = NotSettled /\ confirmAnswer' = None

\* --------------------------------------------------------- conflict detector
\* a plausible slip: the binding being edited is not left out
Filter_IncludesSelf(list, hotkeyId, newKey) ==
  LET other(h) == h.key = newKey
  IN SelectSeq(list, other)

\* a plausible slip: only the bindings listed before the edited one are compared
Filter_EarlierOnly(list, hotkeyId, newKey) ==
  LET pos(id) == IF \E i \in DOMAIN list : list[i].id = id
                 THEN CHOOSE i \in DOMAIN list : list[i].id = id
                 ELSE Len(list) + 1
      other(h) == h.id # hotkeyId /\ h.key = newKey /\ pos(h.id) < pos(hotkeyId)
  IN SelectSeq(list, other)

\* a plausible slip: disabled bindings are skipped
Filter_ActiveOnly(list, hotkeyId, newKey) ==
  LET other(h) == h.id # hotkeyId /\ h.key = newKey /\ h.active
  IN SelectSeq(list, other)

\* list.filter((h) => h.id !== hotkeyId && h.key === newKey)
Filter(list, hotkeyId, newKey) ==
  LET other(h) == h.id # hotkeyId /\ h.key = newKey
  IN SelectSeq(list, other)

getGlobalDuplicates(hotkeyId, newKey) == Filter(hotkeys, hotkeyId, newKey)

\* ------------------------------------------------------------- sync handlers
\* a plausible slip: the dirty state is rebuilt without spreading the old one
handleToggleHotkey_ForgetsDirty(hotkeyId) ==
  /\ UserCanAct
  /\ Rendered(hotkeyId)
  /\ LET updatedHotkeys ==
           [i \in DOMAIN hotkeys |->
              IF hotkeys[i].id = hotkeyId
              THEN [hotkeys[i] EXCEPT !.active = ~hotkeys[i].active]
              ELSE hotkeys[i]]
     IN /\ hotkeys' = updatedHotkeys
        /\ dirtyState' = {Find(hotkeyId).section}
        /\ globalEnabled' = (\A i \in DOMAIN updatedHotkeys : updatedHotkeys[i].active)
  /\ nact' = nact + 1
  /\ Silent
  /\ UNCHANGED <<isLoading, autoTranslatePlatforms,
                 duplicateConfirmDialog, ops, server, envVars, mergeVars, itemVars, helpVars>>

\* handleToggleHotkey, lines 295-318
handleToggleHotkey(hotkeyId) ==
  /\ UserCanAct
  /\ Rendered(hotkeyId)
  /\ LET updatedHotkeys ==
           [i \in DOMAIN hotkeys |->
              IF hotkeys[i].id = hotkeyId
              THEN [hotkeys[i] EXCEPT !.active = ~hotkeys[i].active]
              ELSE hotkeys[i]]
     IN /\ hotkeys' = updatedHotkeys
        /\ dirtyState' = dirtyState \cup {Find(hotkeyId).section}
        /\ globalEnabled' = (\A i \in DOMAIN updatedHotkeys : updatedHotkeys[i].active)
  /\ nact' = nact + 1
  /\ Silent
  /\ UNCHANGED <<isLoading, autoTranslatePlatforms,
                 duplicateConfirmDialog, ops, server, envVars, mergeVars, itemVars, helpVars>>

\* the state changes of updateHotkeyKey; nothing when the binding is not found
updateHotkeyKey(hotkeyId, newKey) ==
  IF \E i \in DOMAIN hotkeys : hotkeys[i].id = hotkeyId
  THEN /\ hotkeys' = [i \in DOMAIN hotkeys |->
                        IF hotkeys[i].id = hotkeyId
                        THEN [hotkeys[i] EXCEPT !.key = newKey, !.mac = newKey]
                        ELSE hotkeys[i]]
       /\ dirtyState' = dirtyState \cup {Find(hotkeyId).section}
  ELSE UNCHANGED <<hotkeys, dirtyState>>

\* a plausible slip: the key is applied without asking
handleSaveHotkey_NoConfirm(hotkeyId, newKey) ==
  /\ UserCanAct
  /\ Rendered(hotkeyId)
  /\ updateHotkeyKey(hotkeyId, newKey)
  /\ nact' = nact + 1
  /\ Silent
  /\ UNCHANGED <<isLoading, globalEnabled, autoTranslatePlatforms,
                 duplicateConfirmDialog, ops, server, envVars, mergeVars, itemVars, helpVars>>

\* Apply of the item in edit mode: onSave(hotkey.id, editedKey)
handleSaveHotkey(hotkeyId, newKey) ==
  /\ UserCanAct
  /\ Rendered(hotkeyId)
  /\ LET conflictingHotkeys == getGlobalDuplicates(hotkeyId, newKey)
     IN IF Len(conflictingHotkeys) > 0
        THEN /\ duplicateConfirmDialog' =
                  [open |-> TRUE, hotkeyId |-> hotkeyId, newKey |-> newKey,
                   conflictingHotkeys |-> conflictingHotkeys]
             /\ UNCHANGED <<hotkeys, dirtyState>>
        ELSE /\ updateHotkeyKey(hotkeyId, newKey)
             /\ UNCHANGED duplicateConfirmDialog
  /\ nact' = nact + 1
  /\ Silent
  /\ UNCHANGED <<isLoading, globalEnabled, autoTranslatePlatforms, ops, server,
                 envVars, mergeVars, itemVars, helpVars>>

handleConfirmDuplicate ==
  /\ duplicateConfirmDialog.open
  /\ duplicateConfirmDialog' = ClosedDialog
  /\ IF duplicateConfirmDialog.hotkeyId # None /\ duplicateConfirmDialog.newKey # None
     THEN updateHotkeyKey(duplicateConfirmDialog.hotkeyId, duplicateConfirmDialog.newKey)
     ELSE UNCHANGED <<hotkeys, dirtyState>>
  /\ Silent
  /\ UNCHANGED <<isLoading, globalEnabled, autoTranslatePlatforms, ops, server,
                 envVars, nact, mergeVars, itemVars, helpVars>>

handleCancelDuplicate ==
  /\ duplicateConfirmDialog.open
  /\ duplicateConfirmDialog' = ClosedDialog
  /\ Silent
  /\ UNCHANGED <<hotkeys, isLoading, globalEnabled, dirtyState,
                 autoTranslatePlatforms, ops, server, envVars, nact, mergeVars, itemVars, helpVars>>

\* ------------------------------------------------------------ async handlers
\* A request is answered in one step: the server handles it and the handler that
\* awaits it resumes. Between the sending and that step any other step may occur.
NoBody == RequestBody(<<>>, [autoTranslatePlatforms |-> TRUE])

\* the state values of the render whose handler is called: what its closure holds
Closure ==
  [hotkeys |-> hotkeys, dirtyState |-> dirtyState,
   autoTranslatePlatforms |-> autoTranslatePlatforms]

\* a handler suspended at its await: the request it sent and its closure
Op(id, kind, phase, section, body) ==
  [id |-> id, kind |-> kind, phase |-> phase, section |-> section,
   closure |-> Closure, body |-> body]

\* useEffect(() => { loadHotkeysFromAPI() }): up to the await of the request
useEffectMount ==
  /\ ~mounted
  /\ mounted' = TRUE
  /\ isLoading' = TRUE
  /\ ops' = ops \cup {Op(0, "load", "load", None, NoBody)}
  /\ Silent
  /\ UNCHANGED <<hotkeys, globalEnabled, dirtyState, autoTranslatePlatforms,
                 duplicateConfirmDialog, server, appSettings, nact, mergeVars, itemVars, helpVars>>

\* window.APP_SETTINGS?.user?.hotkeySettings?.autoTranslatePlatforms, or true
PlatformSetting ==
  IF appSettings.autoTranslatePlatforms = {} THEN TRUE
  ELSE CHOOSE v \in appSettings.autoTranslatePlatforms : TRUE

LoadErrorToast ==
  [type |-> "error",
   message |-> <<"Could not load custom hotkeys from server, using cached settings",
                 None>>]

\* answers to api.callApi("hotkeys"): the stored override map, a response without
\* custom_hotkeys, an exception
FetchOutcomes == {"ok", "nocustom", "throw"}

\* a plausible slip: the fallback uses the plain defaults, not the cached overrides
LoadResume_IgnoresCache(outcome) ==
  CASE outcome = "ok" ->
         /\ hotkeys' = updateHotkeysWithCustomSettings(typedDefaultHotkeys,
                                                       server.custom_hotkeys)
         /\ autoTranslatePlatforms' = PlatformSetting
    [] outcome = "nocustom" ->
         /\ hotkeys' = typedDefaultHotkeys
         /\ autoTranslatePlatforms' = PlatformSetting
    [] OTHER ->
         /\ hotkeys' = typedDefaultHotkeys
         /\ UNCHANGED autoTranslatePlatforms

\* loadHotkeysFromAPI after its await, without the finally block
LoadResume(outcome) ==
  CASE outcome = "ok" ->
         /\ hotkeys' = updateHotkeysWithCustomSettings(typedDefaultHotkeys,
                                                       server.custom_hotkeys)
         /\ autoTranslatePlatforms' = PlatformSetting
    [] outcome = "nocustom" ->
         /\ hotkeys' = updateHotkeysWithCustomSettings(typedDefaultHotkeys,
                                                       appSettings.customHotkeys)
         /\ autoTranslatePlatforms' = PlatformSetting
    [] OTHER ->
         /\ hotkeys' = updateHotkeysWithCustomSettings(typedDefaultHotkeys,
                                                       appSettings.customHotkeys)
         /\ UNCHANGED autoTranslatePlatforms

LoadToasts(outcome) ==
  IF outcome \in {"ok", "nocustom"} THEN <<>> ELSE <<LoadErrorToast>>

\* a plausible slip: a failed request is sent again and the load stays pending
LoadSettle_Retries(op, outcome) ==
  /\ op \in ops /\ op.kind = "load"
  /\ toast' = <<>>
  /\ saveSettled' = NotSettled
  /\ confirmAnswer' = None
  /\ IF outcome = "throw"
     THEN /\ isLoading' = TRUE
          /\ ops' = ops
          /\ UNCHANGED <<hotkeys, autoTranslatePlatforms>>
     ELSE /\ LoadResume(outcome)
          /\ isLoading' = FALSE
          /\ ops' = ops \ {op}
  /\ UNCHANGED <<globalEnabled, dirtyState, duplicateConfirmDialog, server,
                 envVars, nact, mergeVars, itemVars, helpVars>>

\* the load started by the mount effect gets its response
LoadSettle(op, outcome) ==
  /\ op \in ops /\ op.kind = "load"
  /\ LoadResume(outcome)
  /\ toast' = LoadToasts(outcome)
  /\ saveSettled' = NotSettled
  /\ confirmAnswer' = None
  /\ isLoading' = FALSE
  /\ ops' = ops \ {op}
  /\ UNCHANGED <<globalEnabled, dirtyState, duplicateConfirmDialog, server,
                 envVars, nact, mergeVars, itemVars, helpVars>>

\* a plausible slip: only the bindings of the saved section are sent
handleSaveSection_OnlySection(sectionId) ==
  /\ UserCanAct
  /\ SectionsShown
  /\ isLoading' = TRUE
  /\ LET inSection(h) == h.section = sectionId
     IN ops' = ops \cup
          {Op(nact + 1, "save", "save", sectionId,
              RequestBody(SelectSeq(hotkeys, inSection),
                          [autoTranslatePlatforms |-> autoTranslatePlatforms]))}
  /\ nact' = nact + 1
  /\ Silent
  /\ UNCHANGED <<hotkeys, globalEnabled, dirtyState, autoTranslatePlatforms,
                 duplicateConfirmDialog, server, envVars, mergeVars, itemVars, helpVars>>

\* Save of a section: up to the await inside saveHotkeysToAPI
handleSaveSection(sectionId) ==
  /\ UserCanAct
  /\ SectionsShown
  /\ isLoading' = TRUE
  /\ ops' = ops \cup
       {Op(nact + 1, "save", "save", sectionId,
           RequestBody(hotkeys, [autoTranslatePlatforms |-> autoTranslatePlatforms]))}
  /\ nact' = nact + 1
  /\ Silent
  /\ UNCHANGED <<hotkeys, globalEnabled, dirtyState, autoTranslatePlatforms,
                 duplicateConfirmDialog, server, envVars, mergeVars, itemVars, helpVars>>

\* the server stores the whole body of a request it accepts, and nothing otherwise
ServerUpdateHotkeys(body, outcome) ==
  server' = IF outcome \in StoredOutcomes THEN body ELSE server

\* typedHotkeySections.find((s) => s.id === sectionId)?.title
SectionName(sectionId) == IF sectionId = "settings" THEN "Settings" ELSE sectionId

\* the request of handleSaveSection is answered; handleSaveSection after its await
SaveSectionSettle(op, outcome) ==
  /\ op \in ops /\ op.kind = "save"
  /\ ServerUpdateHotkeys(op.body, outcome)
  /\ LET result == SaveResult(outcome)
     IN /\ saveSettled' = result
        /\ confirmAnswer' = None
        /\ IF result.settled = "returned" /\ result.ok
           THEN /\ dirtyState' = op.closure.dirtyState \ {op.section}
                /\ toast' = <<[type |-> "info",
                               message |-> <<SectionName(op.section),
                                             " hotkeys saved successfully">>]>>
           ELSE /\ UNCHANGED dirtyState
                /\ toast' = <<[type |-> "error",
                               message |-> IF result.settled = "returned"
                                           THEN <<"Failed to save: ", result.error>>
                                           ELSE <<"Error saving: ", result.error>>]>>
  /\ isLoading' = FALSE
  /\ ops' = ops \ {op}
  /\ UNCHANGED <<hotkeys, globalEnabled, autoTranslatePlatforms,
                 duplicateConfirmDialog, envVars, nact, mergeVars, itemVars, helpVars>>

\* a plausible slip: the loading flag is raised before the question is asked
handleResetToDefaults_LoadsFirst(confirmed) ==
  /\ UserCanAct
  /\ isLoading' = TRUE
  /\ IF ~confirmed
     THEN UNCHANGED <<hotkeys, globalEnabled, dirtyState,
                      autoTranslatePlatforms, ops, nact>>
     ELSE /\ hotkeys' = typedDefaultHotkeys
          /\ globalEnabled' = TRUE
          /\ autoTranslatePlatforms' = TRUE
          /\ dirtyState' = {}
          /\ ops' = ops \cup
               {Op(nact + 1, "reset", "save", None,
                   RequestBody(<<>>, [autoTranslatePlatforms |->
                                        Closure.autoTranslatePlatforms]))}
          /\ nact' = nact + 1
  /\ confirmAnswer' = IF confirmed THEN "ok" ELSE "cancel"
  /\ toast' = <<>> /\ saveSettled' = NotSettled
  /\ UNCHANGED <<duplicateConfirmDialog, server, envVars, mergeVars, itemVars, helpVars>>

\* Reset to Defaults of the Actions menu: confirm(), then up to the await
handleResetToDefaults(confirmed) ==
  /\ UserCanAct
  /\ IF ~confirmed
     THEN UNCHANGED <<hotkeys, isLoading, globalEnabled, dirtyState,
                      autoTranslatePlatforms, ops, nact>>
     ELSE /\ isLoading' = TRUE
          /\ hotkeys' = typedDefaultHotkeys
          /\ globalEnabled' = TRUE
          /\ autoTranslatePlatforms' = TRUE
          /\ dirtyState' = {}
          /\ ops' = ops \cup
               {Op(nact + 1, "reset", "save", None,
                   RequestBody(<<>>, [autoTranslatePlatforms |->
                                        Closure.autoTranslatePlatforms]))}
          /\ nact' = nact + 1
  /\ confirmAnswer' = IF confirmed THEN "ok" ELSE "cancel"
  /\ toast' = <<>> /\ saveSettled' = NotSettled
  /\ UNCHANGED <<duplicateConfirmDialog, server, envVars, mergeVars, itemVars, helpVars>>

\* the request of a reset is answered; handleResetToDefaults after its await
ResetSettle(op, outcome) ==
  /\ op \in ops /\ op.kind = "reset"
  /\ ServerUpdateHotkeys(op.body, outcome)
  /\ LET result == SaveResult(outcome)
     IN /\ saveSettled' = result
        /\ confirmAnswer' = None
        /\ toast' =
             << CASE result.settled = "returned" /\ result.ok ->
                       [type |-> "info",
                        message |-> <<"All hotkeys and settings have been reset to defaults and saved", None>>]
                  [] result.settled = "returned" /\ ~result.ok ->
                       [type |-> "error",
                        message |-> <<"Failed to save reset hotkeys: ", result.error>>]
                  [] OTHER ->
                       [type |-> "error",
                        message |-> <<"Error resetting hotkeys: ", result.error>>] >>
  /\ isLoading' = FALSE
  /\ ops' = ops \ {op}
  /\ UNCHANGED <<hotkeys, globalEnabled, dirtyState, autoTranslatePlatforms,
                 duplicateConfirmDialog, envVars, nact, mergeVars, itemVars, helpVars>>

\* handleImportHotkeys suspended at an await: its closure also holds its argument
ImportOp(id, importedData, body) ==
  [id |-> id, kind |-> "import", phase |-> "save", section |-> None,
   closure |-> Closure, body |-> body, importedData |-> importedData]

\* importedSettings.autoTranslatePlatforms, as the set holding it when defined
ImportedSettingsAuto(importedData) ==
  IF importedData.isArray THEN {} ELSE importedData.settingsAuto

\* a plausible slip: the bindings and the settings are sent in two requests
handleImportHotkeys_SplitsRequest(importedData) ==
  /\ UserCanAct
  /\ LET importedHotkeys == importedData.hotkeys
         importedAuto == ImportedSettingsAuto(importedData)
         settingsToSave ==
           [autoTranslatePlatforms |->
              IF importedAuto # {} THEN CHOOSE v \in importedAuto : TRUE
              ELSE autoTranslatePlatforms]
     IN /\ isLoading' = TRUE
        /\ hotkeys' = importedHotkeys
        /\ autoTranslatePlatforms' = settingsToSave.autoTranslatePlatforms
        /\ globalEnabled' =
             (\A i \in DOMAIN importedHotkeys : importedHotkeys[i].active)
        /\ ops' = ops \cup
             {ImportOp(nact + 1, importedData,
                       [custom_hotkeys |-> ToCustomHotkeys(importedHotkeys),
                        hotkey_settings |-> server.hotkey_settings]),
              ImportOp(nact + 1, importedData,
                       [custom_hotkeys |-> server.custom_hotkeys,
                        hotkey_settings |-> settingsToSave])}
  /\ nact' = nact + 1
  /\ Silent
  /\ UNCHANGED <<dirtyState, duplicateConfirmDialog, server, envVars, mergeVars, itemVars, helpVars>>

\* onImport of the import dialog: up to the await inside saveHotkeysToAPI
handleImportHotkeys(importedData) ==
  /\ UserCanAct
  /\ LET importedHotkeys == importedData.hotkeys
         importedAuto == ImportedSettingsAuto(importedData)
         settingsToSave ==
           [autoTranslatePlatforms |->
              IF importedAuto # {} THEN CHOOSE v \in importedAuto : TRUE
              ELSE autoTranslatePlatforms]
     IN /\ isLoading' = TRUE
        /\ hotkeys' = importedHotkeys
        /\ autoTranslatePlatforms' =
             IF importedAuto # {} THEN CHOOSE v \in importedAuto : TRUE
             ELSE autoTranslatePlatforms
        /\ globalEnabled' =
             (\A i \in DOMAIN importedHotkeys : importedHotkeys[i].active)
        /\ ops' = ops \cup
             {ImportOp(nact + 1, importedData,
                       RequestBody(importedHotkeys, settingsToSave))}
  /\ nact' = nact + 1
  /\ Silent
  /\ UNCHANGED <<dirtyState, duplicateConfirmDialog, server, envVars, mergeVars, itemVars, helpVars>>

\* a plausible slip: the list is re-fetched whatever the result of the save
ImportSaveSettle_AlwaysReloads(op, outcome) ==
  /\ op \in ops /\ op.kind = "import" /\ op.phase = "save"
  /\ ServerUpdateHotkeys(op.body, outcome)
  /\ saveSettled' = SaveResult(outcome)
  /\ confirmAnswer' = None
  /\ isLoading' = TRUE
  /\ ops' = (ops \ {op}) \cup {[op EXCEPT !.phase = "load"]}
  /\ toast' = <<>>
  /\ UNCHANGED <<hotkeys, globalEnabled, dirtyState, autoTranslatePlatforms,
                 duplicateConfirmDialog, envVars, nact, mergeVars, itemVars, helpVars>>

\* the save of an import is answered; handleImportHotkeys after that await: a
\* failure is thrown to its catch block, a success calls loadHotkeysFromAPI,
\* which runs up to its own await
ImportSaveSettle(op, outcome) ==
  /\ op \in ops /\ op.kind = "import" /\ op.phase = "save"
  /\ ServerUpdateHotkeys(op.body, outcome)
  /\ LET result == SaveResult(outcome)
     IN /\ saveSettled' = result
        /\ confirmAnswer' = None
        /\ IF result.settled = "returned" /\ result.ok
           THEN /\ isLoading' = TRUE
                /\ ops' = (ops \ {op}) \cup {[op EXCEPT !.phase = "load"]}
                /\ toast' = <<>>
           ELSE /\ isLoading' = FALSE
                /\ ops' = ops \ {op}
                /\ toast' =
                     <<[type |-> "error",
                        message |-> <<"Error importing hotkeys: ",
                                      IF result.error = None
                                      THEN "Failed to save imported hotkeys"
                                      ELSE result.error>>]>>
  /\ UNCHANGED <<hotkeys, globalEnabled, dirtyState, autoTranslatePlatforms,
                 duplicateConfirmDialog, envVars, nact, mergeVars, itemVars, helpVars>>

\* the re-fetch of an import is answered: the rest of loadHotkeysFromAPI, then the
\* rest of handleImportHotkeys
ImportReloadSettle(op, outcome) ==
  /\ op \in ops /\ op.kind = "import" /\ op.phase = "load"
  /\ LoadResume(outcome)
  /\ dirtyState' = {}
  /\ toast' = LoadToasts(outcome) \o
       <<[type |-> "info", message |-> <<"Hotkeys imported successfully", None>>]>>
  /\ saveSettled' = NotSettled
  /\ confirmAnswer' = None
  /\ isLoading' = FALSE
  /\ ops' = ops \ {op}
  /\ UNCHANGED <<globalEnabled, duplicateConfirmDialog, server, envVars, nact,
                 mergeVars, itemVars, helpVars>>

\* -------------------------------------------------------------- specification
HotkeyIds == {"undo", "redo", "del", "undo2"}
ApiOutcomes == StoredOutcomes \cup RefusedOutcomes

Next ==
  \/ useEffectMount
  \/ \E hotkeyId \in HotkeyIds : handleToggleHotkey(hotkeyId)
  \/ \E hotkeyId \in HotkeyIds, newKey \in RecordedKeys :
       handleSaveHotkey(hotkeyId, newKey)
  \/ handleConfirmDuplicate
  \/ handleCancelDuplicate
  \/ \E sectionId \in typedHotkeySections : handleSaveSection(sectionId)
  \/ \E confirmed \in BOOLEAN : handleResetToDefaults(confirmed)
  \/ \E importedData \in ImportFiles(hotkeys, autoTranslatePlatforms) :
       handleImportHotkeys(importedData)
  \/ \E op \in ops, outcome \in FetchOutcomes : LoadSettle(op, outcome)
  \/ \E op \in ops, outcome \in ApiOutcomes : SaveSectionSettle(op, outcome)
  \/ \E op \in ops, outcome \in ApiOutcomes : ResetSettle(op, outcome)
  \/ \E op \in ops, outcome \in ApiOutcomes : ImportSaveSettle(op, outcome)
  \/ \E op \in ops, outcome \in FetchOutcomes : ImportReloadSettle(op, outcome)

Spec == Init /\ [][Next]_vars

\* ------------------------------------------------- a second session of the user
\* the list of another session of the same user: a release whose catalog has one
\* more binding, with redo edited and disabled
OtherSessionHotkeys ==
  << typedDefaultHotkeys[1],
     [typedDefaultHotkeys[2] EXCEPT !.key = "ctrl+shift+z", !.active = FALSE],
     typedDefaultHotkeys[3],
     Hotkey("zoom", "annotation", "zoom", "Zoom", "ctrl+plus", TRUE) >>

\* the bodies saveHotkeysToAPI builds in that session: a save and a reset
OtherSessionBodies ==
  { RequestBody(OtherSessionHotkeys, [autoTranslatePlatforms |-> FALSE]),
    RequestBody(<<>>, [autoTranslatePlatforms |-> FALSE]) }

\* the server accepts an updateHotkeys request of the other session
OtherSessionSave(body) ==
  /\ \E outcome \in StoredOutcomes : ServerUpdateHotkeys(body, outcome)
  /\ server' # server
  /\ UNCHANGED <<localVars, toast, saveSettled, confirmAnswer, ops, envVars, nact,
                 mergeVars, itemVars, helpVars>>

SessionsNext ==
  \/ Next
  \/ \E body \in OtherSessionBodies : OtherSessionSave(body)

SpecSessions == Init /\ [][SessionsNext]_vars

\* ------------------------------------------------ the merge function on its own
MergePool == Range(typedDefaultHotkeys)
MergeLists ==
  UNION {[1..n -> MergePool] : n \in 0..MaxMergeLen}
MergeSettings ==
  { [key |-> "a", active |-> FALSE, description |-> ""],
    [key |-> "ctrl+shift+z", active |-> TRUE, description |-> "Undo last"] }
MergeLookupKeys == {<<"annotation", "undo">>, <<"regions", "delete">>,
                    <<"annotation", "zoom">>}
MergeMaps ==
  UNION {[d -> MergeSettings] : d \in SUBSET MergeLookupKeys}

MergeInit ==
  /\ ManagerInit
  /\ mergeIn \in [defaultHotkeys : MergeLists, customHotkeys : MergeMaps]
  /\ mergeOut = <<>>
  /\ mergeDone = FALSE
  /\ ItemInit
  /\ HelpInit

ApplyMerge ==
  /\ ~mergeDone
  /\ mergeOut' = updateHotkeysWithCustomSettings(mergeIn.defaultHotkeys,
                                                 mergeIn.customHotkeys)
  /\ mergeDone' = TRUE
  /\ UNCHANGED <<localVars, toast, saveSettled, confirmAnswer, ops, server,
                 envVars, nact, mergeIn, itemVars, helpVars>>

SpecMerge == MergeInit /\ [][ApplyMerge]_vars

\* ------------------------------------------- key capture of one item on its own
\* KeyboardEvent.key of the keys the user presses: the modifiers and three others
ModifierKeys == {"Control", "Shift", "Alt", "Meta"}
OtherKeys == {"a", "1", "Enter"}

\* the key value the keyboard reports for a key, with or without Shift held
KeyValue(physical, shift) ==
  CASE physical = "a" /\ shift -> "A"
    [] physical = "1" /\ shift -> "!"
    [] OTHER -> physical

\* String.prototype.toLowerCase on the key values above
ToLowerCase(key) ==
  CASE key = "A" -> "a"
    [] key = "Enter" -> "enter"
    [] key = "Control" -> "control"
    [] key = "Shift" -> "shift"
    [] key = "Alt" -> "alt"
    [] key = "Meta" -> "meta"
    [] OTHER -> key

\* Array.prototype.join
RECURSIVE Join(_, _)
Join(parts, separator) ==
  IF Len(parts) = 0 THEN ""
  ELSE IF Len(parts) = 1 THEN parts[1]
  ELSE parts[1] \o separator \o Join(Tail(parts), separator)

\* the keydown event of a key, given the modifiers down when it is delivered
KeyboardEvent(physical, down) ==
  [key |-> KeyValue(physical, "Shift" \in Range(down)),
   ctrlKey |-> "Control" \in Range(down),
   shiftKey |-> "Shift" \in Range(down),
   altKey |-> "Alt" \in Range(down),
   metaKey |-> "Meta" \in Range(down)]

\* a plausible slip: the modifiers are pushed in the order they were pressed
KeyCombo_PressOrder(e) ==
  LET name(m) == ToLowerCase(m)
      isDown(m) == \/ m = "Control" /\ e.ctrlKey
                   \/ m = "Shift" /\ e.shiftKey
                   \/ m = "Alt" /\ e.altKey
                   \/ m = "Meta" /\ e.metaKey
      order == SelectSeq(pressed, isDown)
  IN Join([i \in DOMAIN order |-> name(order[i])] \o <<ToLowerCase(e.key)>>, "+")

\* keyCombo of handleKeyPress, joined
KeyCombo(e) ==
  Join((IF e.ctrlKey THEN <<"ctrl">> ELSE <<>>)
         \o (IF e.shiftKey THEN <<"shift">> ELSE <<>>)
         \o (IF e.altKey THEN <<"alt">> ELSE <<>>)
         \o (IF e.metaKey THEN <<"meta">> ELSE <<>>)
         \o <<ToLowerCase(e.key)>>,
       "+")

\* a plausible slip: a keydown of a modifier alone is captured like any other
handleKeyPress_CapturesModifier(e) ==
  IF ~keyRecordingMode
  THEN UNCHANGED <<editedKey, keyRecordingMode>>
  ELSE /\ editedKey' = KeyCombo(e)
       /\ keyRecordingMode' = FALSE

\* a plausible slip: the handler does not test the recording flag
handleKeyPress_AlwaysRecords(e) ==
  IF e.key \in ModifierKeys
  THEN UNCHANGED <<editedKey, keyRecordingMode>>
  ELSE /\ editedKey' = KeyCombo(e)
       /\ keyRecordingMode' = FALSE

\* onKeyDown of the recording button (setError("") is left out: error is never
\* set to anything else)
handleKeyPress(e) ==
  IF ~keyRecordingMode
  THEN UNCHANGED <<editedKey, keyRecordingMode>>
  ELSE IF e.key \in ModifierKeys
  THEN UNCHANGED <<editedKey, keyRecordingMode>>
  ELSE /\ editedKey' = KeyCombo(e)
       /\ keyRecordingMode' = FALSE

managerVars == <<localVars, toast, saveSettled, confirmAnswer, ops, server,
                 envVars, nact, mergeVars>>

\* a key goes down; the recording button, rendered in edit mode only, gets it
KeyDown(physical) ==
  LET down == IF physical \in ModifierKeys /\ physical \notin Range(pressed)
              THEN Append(pressed, physical) ELSE pressed
  IN /\ pressed' = down
     /\ IF isEditing
        THEN handleKeyPress(KeyboardEvent(physical, down))
        ELSE UNCHANGED <<editedKey, keyRecordingMode>>
     /\ UNCHANGED <<isEditing, managerVars, helpVars>>

\* a modifier is released; the item has no keyup handler
KeyUp(physical) ==
  /\ physical \in Range(pressed)
  /\ pressed' = SelectSeq(pressed, LAMBDA m : m # physical)
  /\ UNCHANGED <<isEditing, editedKey, keyRecordingMode, managerVars, helpVars>>

\* click on the key of the item in normal view: onEdit puts it in edit mode, and
\* the effect on isEditing starts recording
handleEdit ==
  /\ ~isEditing
  /\ isEditing' = TRUE
  /\ keyRecordingMode' = TRUE
  /\ editedKey' = ""
  /\ UNCHANGED <<pressed, managerVars, helpVars>>

\* a plausible slip: recording restarts without clearing the captured key
startRecordingKeys_KeepsKey ==
  /\ isEditing
  /\ keyRecordingMode' = TRUE
  /\ UNCHANGED <<editedKey, isEditing, pressed, managerVars, helpVars>>

\* click on the recording button
startRecordingKeys ==
  /\ isEditing
  /\ keyRecordingMode' = TRUE
  /\ editedKey' = ""
  /\ UNCHANGED <<isEditing, pressed, managerVars, helpVars>>

\* Cancel: onCancel, the manager's handleCancelEdit ends the edit mode
handleCancel ==
  /\ isEditing
  /\ isEditing' = FALSE
  /\ UNCHANGED <<editedKey, keyRecordingMode, pressed, managerVars, helpVars>>

\* Apply, disabled while editedKey is empty: onSave(hotkey.id, editedKey); the
\* manager ends the edit mode when it applies the key (applied) and leaves it
\* when it opens the duplicate dialog
handleSave(applied) ==
  /\ isEditing
  /\ editedKey # ""
  /\ isEditing' = (~applied)
  /\ UNCHANGED <<editedKey, keyRecordingMode, pressed, managerVars, helpVars>>

CaptureInit ==
  /\ ManagerInit
  /\ mergeIn = NoMerge
  /\ mergeOut = <<>>
  /\ mergeDone = FALSE
  /\ ItemInit
  /\ HelpInit

CaptureNext ==
  \/ \E physical \in ModifierKeys \cup OtherKeys : KeyDown(physical)
  \/ \E physical \in ModifierKeys : KeyUp(physical)
  \/ handleEdit
  \/ startRecordingKeys
  \/ handleCancel
  \/ \E applied \in BOOLEAN : handleSave(applied)

SpecCapture == CaptureInit /\ [][CaptureNext]_vars

\* ------------------------------------------- the shortcut help modal on its own
\* HOTKEY_SECTIONS as the help modal reads it: the section ids in catalog order
sections == <<[id |-> "annotation"], [id |-> "regions"]>>

\* URL_TO_SECTION_MAPPING, a small instance: section is a list (isArray) or one
\* name, held as a one-element list
urlMappings ==
  << [regex |-> "task=", isArray |-> TRUE, section |-> <<"annotation", "regions">>],
     [regex |-> "^/projects", isArray |-> FALSE, section |-> <<"regions">>],
     [regex |-> "/data", isArray |-> FALSE, section |-> <<"annotation">>] >>

\* the pages the help can be opened on
PageUrls == {"/projects/1/data?task=2", "/projects/1/data", "/user/account/hotkeys"}

\* RegExp.prototype.test for the expressions and strings above
RegexTest(regex, string) ==
  <<regex, string>> \in
    { <<"task=", "/projects/1/data?task=2">>,
      <<"^/projects", "/projects/1/data?task=2">>,
      <<"^/projects", "/projects/1/data">>,
      <<"/data", "/projects/1/data?task=2">>,
      <<"/data", "/projects/1/data">>,
      <<"/data", "http://host/projects/1/data">> }

\* sectionOrUrl.startsWith("http") || sectionOrUrl.startsWith("/")
LooksLikeUrl(string) ==
  string \in PageUrls \cup {"http://host/projects/1/data"}

\* the arguments of openHotkeyHelp: none, a string, or an array of names
NoArgument == [given |-> FALSE, isArray |-> FALSE, value |-> <<>>]
StringArgument(string) == [given |-> TRUE, isArray |-> FALSE, value |-> <<string>>]
ArrayArgument(names) == [given |-> TRUE, isArray |-> TRUE, value |-> names]
HelpArguments ==
  { NoArgument,
    StringArgument(""),
    StringArgument("/projects/1/data?task=2"),
    StringArgument("http://host/projects/1/data"),
    StringArgument("regions"),
    ArrayArgument(<<"regions", "annotation", "regions">>),
    ArrayArgument(<<>>) }

\* the for loop over urlMappings, up to mapping n
RECURSIVE ApplyUrlMappings(_, _)
ApplyUrlMappings(url, n) ==
  IF n = 0 THEN <<>>
  ELSE LET sectionsToShow == ApplyUrlMappings(url, n - 1)
           mapping == urlMappings[n]
       IN IF RegexTest(mapping.regex, url)
          THEN IF mapping.isArray
               THEN sectionsToShow \o mapping.section
               ELSE Append(sectionsToShow, mapping.section[1])
          ELSE sectionsToShow

\* [...new Set(list)]: the first occurrence of every element, in order
RECURSIVE RemoveDuplicates(_)
RemoveDuplicates(list) ==
  IF list = <<>> THEN <<>>
  ELSE LET n == Len(list)
           front == RemoveDuplicates(SubSeq(list, 1, n - 1))
       IN IF list[n] \in Range(front) THEN front ELSE Append(front, list[n])

\* if (sectionOrUrl): undefined and the empty string are falsy, an array is not
Truthy(sectionOrUrl) ==
  sectionOrUrl.given /\ (sectionOrUrl.isArray \/ sectionOrUrl.value[1] # "")

\* a plausible slip: the duplicates are not removed
determineSectionsToShow_KeepsDuplicates(sectionOrUrl) ==
  LET identified ==
        IF Truthy(sectionOrUrl)
        THEN IF ~sectionOrUrl.isArray /\ LooksLikeUrl(sectionOrUrl.value[1])
             THEN ApplyUrlMappings(sectionOrUrl.value[1], Len(urlMappings))
             ELSE sectionOrUrl.value
        ELSE ApplyUrlMappings(windowLocation, Len(urlMappings))
  IN IF Len(identified) = 0
     THEN [i \in DOMAIN sections |-> sections[i].id]
     ELSE identified

\* determineSectionsToShow, lines 401-444
determineSectionsToShow(sectionOrUrl) ==
  LET identified ==
        IF Truthy(sectionOrUrl)
        THEN IF ~sectionOrUrl.isArray /\ LooksLikeUrl(sectionOrUrl.value[1])
             THEN ApplyUrlMappings(sectionOrUrl.value[1], Len(urlMappings))
             ELSE sectionOrUrl.value
        ELSE ApplyUrlMappings(windowLocation, Len(urlMappings))
      sectionsToShow == RemoveDuplicates(identified)
  IN IF Len(sectionsToShow) = 0
     THEN [i \in DOMAIN sections |-> sections[i].id]
     ELSE sectionsToShow

otherVars == <<localVars, toast, saveSettled, confirmAnswer, ops, server, envVars,
               nact, mergeVars, itemVars>>

\* openHotkeyHelp: the container is appended to the body, the Escape listener
\* registered and the modal rendered with the sections to show
openHotkeyHelp(sectionOrUrl) ==
  /\ Len(helpModals) < MaxModals
  /\ LET modalRoot == Len(helpModals) + 1
     IN /\ helpModals' = Append(helpModals,
             [sectionOrUrl |-> sectionOrUrl,
              currentUrl |-> windowLocation,
              sectionsToShow |-> determineSectionsToShow(sectionOrUrl),
              removed |-> 0, unregistered |-> 0])
        /\ bodyChildren' = bodyChildren \cup {modalRoot}
        /\ keydownListeners' = Append(keydownListeners, modalRoot)
  /\ helpError' = None
  /\ UNCHANGED <<windowLocation, otherVars>>

\* closeModal of the modal with container modalRoot: unmountComponentAtNode does
\* nothing on a container without a component; removeChild throws NotFoundError
\* when the container is not a child of the body, and the statement after it,
\* removeEventListener (which ignores a listener that is not registered), is
\* then not reached
closeModal(modalRoot) ==
  IF modalRoot \in bodyChildren
  THEN /\ bodyChildren' = bodyChildren \ {modalRoot}
       /\ keydownListeners' = SelectSeq(keydownListeners, LAMBDA l : l # modalRoot)
       /\ helpModals' =
            [helpModals EXCEPT
               ![modalRoot].removed = @ + 1,
               ![modalRoot].unregistered =
                 IF modalRoot \in Range(keydownListeners) THEN @ + 1 ELSE @]
       /\ helpError' = None
  ELSE /\ helpError' = "NotFoundError"
       /\ UNCHANGED <<bodyChildren, keydownListeners, helpModals>>

\* the modal is on screen: its click handlers can be reached
OnScreen(modalRoot) == modalRoot \in DOMAIN helpModals /\ modalRoot \in bodyChildren

\* a keydown of Escape on the document: every registered handleEscKey runs, in
\* order of registration, and closes its own modal
handleEscKey ==
  /\ keydownListeners # <<>>
  /\ LET called == Range(keydownListeners)
         thrown == called \ bodyChildren
     IN /\ bodyChildren' = bodyChildren \ called
        /\ keydownListeners' = SelectSeq(keydownListeners, LAMBDA l : l \in thrown)
        /\ helpModals' =
             [i \in DOMAIN helpModals |->
                IF i \in called \cap bodyChildren
                THEN [helpModals[i] EXCEPT !.removed = @ + 1, !.unregistered = @ + 1]
                ELSE helpModals[i]]
        /\ helpError' = IF thrown = {} THEN None ELSE "NotFoundError"
  /\ UNCHANGED <<windowLocation, otherVars>>

\* a click inside the modal's outer div: it closes when the div itself was hit
handleBackdropClick(modalRoot, targetIsCurrentTarget) ==
  /\ OnScreen(modalRoot)
  /\ IF targetIsCurrentTarget
     THEN closeModal(modalRoot)
     ELSE /\ helpError' = None
          /\ UNCHANGED <<bodyChildren, keydownListeners, helpModals>>
  /\ UNCHANGED <<windowLocation, otherVars>>

\* the close button of the header: onClick={onClose}
CloseButtonClick(modalRoot) ==
  /\ OnScreen(modalRoot)
  /\ closeModal(modalRoot)
  /\ UNCHANGED <<windowLocation, otherVars>>

\* Customize: the location is set, then the modal is closed
handleCustomizeClick(modalRoot) ==
  /\ OnScreen(modalRoot)
  /\ windowLocation' = "/user/account/hotkeys"
  /\ closeModal(modalRoot)
  /\ UNCHANGED otherVars

\* the close() of the object openHotkeyHelp returned, which its caller keeps and
\* may call at any time
ModalReturnClose(modalRoot) ==
  /\ modalRoot \in DOMAIN helpModals
  /\ closeModal(modalRoot)
  /\ UNCHANGED <<windowLocation, otherVars>>

HelpSpecInit ==
  /\ ManagerInit
  /\ mergeIn = NoMerge
  /\ mergeOut = <<>>
  /\ mergeDone = FALSE
  /\ ItemInit
  /\ helpModals = <<>>
  /\ bodyChildren = {}
  /\ keydownListeners = <<>>
  /\ windowLocation \in PageUrls
  /\ helpError = None

HelpNext ==
  \/ \E sectionOrUrl \in HelpArguments : openHotkeyHelp(sectionOrUrl)
  \/ handleEscKey
  \/ \E modalRoot \in 1..MaxModals, targetIsCurrentTarget \in BOOLEAN :
       handleBackdropClick(modalRoot, targetIsCurrentTarget)
  \/ \E modalRoot \in 1..MaxModals : CloseButtonClick(modalRoot)
  \/ \E modalRoot \in 1..MaxModals : handleCustomizeClick(modalRoot)
  \/ \E modalRoot \in 1..MaxModals : ModalReturnClose(modalRoot)

SpecHelp == HelpSpecInit /\ [][HelpNext]_vars

\* ==================================================================== claims
AllKeys == {"ctrl+z", "ctrl+y", "backspace", "a"}

\* C1: once the merge has been applied, the result has the length and order of
\* the defaults; a binding whose section:element is a key of the override map has
\* the override's key and active; every other binding is the default unchanged.
C1_MergeOverrides ==
  mergeDone =>
    LET d == mergeIn.defaultHotkeys
        c == mergeIn.customHotkeys
    IN /\ Len(mergeOut) = Len(d)
       /\ \A i \in DOMAIN d :
            /\ mergeOut[i].id = d[i].id
            /\ LookupKey(d[i]) \in DOMAIN c =>
                 /\ mergeOut[i].key = c[LookupKey(d[i])].key
                 /\ mergeOut[i].active = c[LookupKey(d[i])].active
            /\ LookupKey(d[i]) \notin DOMAIN c => mergeOut[i] = d[i]

\* C1 witness: a merge in which one binding was overridden, with a new key and a
\* new active flag, and another was not.
C1_Witness ==
  /\ mergeDone
  /\ \E i, j \in DOMAIN mergeOut :
       /\ LookupKey(mergeIn.defaultHotkeys[i]) \in DOMAIN mergeIn.customHotkeys
       /\ mergeOut[i].key # mergeIn.defaultHotkeys[i].key
       /\ mergeOut[i].active # mergeIn.defaultHotkeys[i].active
       /\ LookupKey(mergeIn.defaultHotkeys[j]) \notin DOMAIN mergeIn.customHotkeys

\* the positions of the loaded list that hold another binding with the key
OthersWithKey(hotkeyId, newKey) ==
  {i \in DOMAIN hotkeys : hotkeys[i].id # hotkeyId /\ hotkeys[i].key = newKey}

\* C2: for every binding id and key, getGlobalDuplicates returns exactly the
\* bindings of the loaded list with another id and that key, each once, and
\* never the binding itself.
C2_DuplicatesExact ==
  \A hotkeyId \in HotkeyIds, newKey \in AllKeys :
    LET found == getGlobalDuplicates(hotkeyId, newKey)
    IN /\ Range(found) = {hotkeys[i] : i \in OthersWithKey(hotkeyId, newKey)}
       /\ Len(found) = Cardinality(OthersWithKey(hotkeyId, newKey))
       /\ \A n \in DOMAIN found : found[n].id # hotkeyId

\* C2 witness: the dialog shows the conflicts of a binding that itself already
\* holds the proposed key, so leaving the binding out matters.
C2_Witness ==
  /\ duplicateConfirmDialog.open
  /\ Len(duplicateConfirmDialog.conflictingHotkeys) > 0
  /\ duplicateConfirmDialog.conflictingHotkeys =
       getGlobalDuplicates(duplicateConfirmDialog.hotkeyId,
                           duplicateConfirmDialog.newKey)
  /\ \E i \in DOMAIN hotkeys :
       /\ hotkeys[i].id = duplicateConfirmDialog.hotkeyId
       /\ hotkeys[i].key = duplicateConfirmDialog.newKey

KeyOfIs(list, hotkeyId, newKey) ==
  /\ \E i \in DOMAIN list : list[i].id = hotkeyId
  /\ \A i \in DOMAIN list : list[i].id = hotkeyId => list[i].key = newKey

\* C3: a handleSaveHotkey whose key another binding holds changes neither the list
\* nor the dirty state and opens the dialog with the id, the key and the conflict
\* set; without a conflict it applies the key in the same step and opens nothing;
\* handleConfirmDuplicate applies the key the dialog holds; handleCancelDuplicate
\* changes neither the list nor the dirty state; and while the dialog is open the
\* only handler that changes the list is handleConfirmDuplicate (a response to a
\* request in flight aside).
C3_ConfirmBeforeDuplicate ==
  [][ /\ \A hotkeyId \in HotkeyIds, newKey \in RecordedKeys :
           handleSaveHotkey(hotkeyId, newKey) =>
             IF Len(getGlobalDuplicates(hotkeyId, newKey)) > 0
             THEN /\ hotkeys' = hotkeys
                  /\ dirtyState' = dirtyState
                  /\ duplicateConfirmDialog' =
                       [open |-> TRUE, hotkeyId |-> hotkeyId, newKey |-> newKey,
                        conflictingHotkeys |-> getGlobalDuplicates(hotkeyId, newKey)]
             ELSE /\ ~duplicateConfirmDialog'.open
                  /\ KeyOfIs(hotkeys', hotkeyId, newKey)
      /\ handleConfirmDuplicate =>
           /\ ~duplicateConfirmDialog'.open
           /\ (\E i \in DOMAIN hotkeys : hotkeys[i].id = duplicateConfirmDialog.hotkeyId)
                => KeyOfIs(hotkeys', duplicateConfirmDialog.hotkeyId,
                           duplicateConfirmDialog.newKey)
      /\ handleCancelDuplicate =>
           /\ ~duplicateConfirmDialog'.open
           /\ hotkeys' = hotkeys
           /\ dirtyState' = dirtyState
      /\ (duplicateConfirmDialog.open /\ ops' = ops /\ hotkeys' # hotkeys)
           => handleConfirmDuplicate
    ]_vars

\* C3 witness: a confirmed duplicate: the dialog is closed, an edited binding
\* shares its key with another binding and its section is dirty.
C3_Witness ==
  /\ ~duplicateConfirmDialog.open
  /\ \E i, j \in DOMAIN hotkeys :
       /\ hotkeys[i].id # hotkeys[j].id
       /\ hotkeys[i].key = hotkeys[j].key
       /\ hotkeys[i].mac = hotkeys[i].key
       /\ hotkeys[i].section \in dirtyState

\* C4 as stated: a binding that is not active is never reported as a conflict.
C4_InactiveNotReported ==
  \A hotkeyId \in HotkeyIds, newKey \in AllKeys :
    \A i \in OthersWithKey(hotkeyId, newKey) :
      ~hotkeys[i].active =>
        hotkeys[i] \notin Range(getGlobalDuplicates(hotkeyId, newKey))

\* C4 amended: the active flag plays no part in duplicate detection: a binding
\* that is not active is reported as a conflict whenever it has another id and
\* holds the proposed key.
C4_InactiveReported ==
  \A hotkeyId \in HotkeyIds, newKey \in AllKeys :
    \A i \in OthersWithKey(hotkeyId, newKey) :
      ~hotkeys[i].active =>
        hotkeys[i] \in Range(getGlobalDuplicates(hotkeyId, newKey))

\* C4 witness: the dialog is open on a conflict with a disabled binding.
C4_Witness ==
  /\ duplicateConfirmDialog.open
  /\ \E n \in DOMAIN duplicateConfirmDialog.conflictingHotkeys :
       ~duplicateConfirmDialog.conflictingHotkeys[n].active

\* the list after the binding at position i has been given the key
WithKey(list, i, newKey) == [list EXCEPT ![i].key = newKey]

\* C5: for two bindings A and B with different ids and any key K, B is in the
\* conflict set of A proposing K while B holds K exactly when A is in the conflict
\* set of B proposing K while A holds K.
C5_Symmetric ==
  \A a, b \in DOMAIN hotkeys, newKey \in AllKeys :
    hotkeys[a].id # hotkeys[b].id =>
      LET whenB == WithKey(hotkeys, b, newKey)
          whenA == WithKey(hotkeys, a, newKey)
      IN (whenB[b] \in Range(Filter(whenB, hotkeys[a].id, newKey)))
           <=> (whenA[a] \in Range(Filter(whenA, hotkeys[b].id, newKey)))

\* C5 witness: two bindings hold the same key, the later one enabled, the earlier
\* one disabled, and each is in the conflict set of the other.
C5_Witness ==
  \E a, b \in DOMAIN hotkeys :
    /\ a < b
    /\ hotkeys[a].id # hotkeys[b].id
    /\ hotkeys[a].key = hotkeys[b].key
    /\ ~hotkeys[a].active /\ hotkeys[b].active
    /\ hotkeys[b] \in Range(getGlobalDuplicates(hotkeys[a].id, hotkeys[a].key))
    /\ hotkeys[a] \in Range(getGlobalDuplicates(hotkeys[b].id, hotkeys[b].key))

\* the requests a step sends
Sent == {op.body : op \in ops' \ ops}

LastWith(keyId) ==
  CHOOSE i \in DOMAIN hotkeys :
    /\ LookupKey(hotkeys[i]) = keyId
    /\ \A j \in DOMAIN hotkeys : LookupKey(hotkeys[j]) = keyId => j <= i

RanAlone(op) ==
  /\ op.id = 1 /\ nact = 1 /\ ops = {op}
  /\ Len(op.closure.hotkeys) > 0

\* C7: when the updateHotkeys request of a save, a reset or an import is refused
\* (exception or error response), the binding list, autoTranslatePlatforms and
\* the dirty state after the failed action are those before it was started.
C7_FailureLeavesStateUnchanged ==
  [][ \A op \in ops, outcome \in RefusedOutcomes :
        ( /\ RanAlone(op)
          /\ \/ SaveSectionSettle(op, outcome)
             \/ ResetSettle(op, outcome)
             \/ ImportSaveSettle(op, outcome) )
        => /\ hotkeys' = op.closure.hotkeys
           /\ autoTranslatePlatforms' = op.closure.autoTranslatePlatforms
           /\ dirtyState' = op.closure.dirtyState
    ]_vars

\* what the result of saveHotkeysToAPI is said to be for an outcome of the request
C8_Reported(outcome) ==
  CASE outcome.type = "ok" -> {[settled |-> "returned", ok |-> TRUE, error |-> None]}
    [] outcome.type = "error" ->
         {[settled |-> "returned", ok |-> FALSE, error |-> outcome.error]}
    [] outcome.type = "throw" /\ outcome.status = "400" ->
         {[settled |-> "returned", ok |-> FALSE, error |-> e] :
            e \in IF outcome.error # None THEN {outcome.error}
                  ELSE {"Invalid hotkeys configuration", "Invalid reset request"}}
    [] outcome.type = "throw" /\ outcome.status = "401" ->
         {[settled |-> "returned", ok |-> FALSE, error |-> "Authentication required"]}
    [] outcome.type = "throw" /\ outcome.status = "500" ->
         {[settled |-> "returned", ok |-> FALSE,
           error |-> "Server error - please try again later"]}
    [] OTHER ->
         {[settled |-> "returned", ok |-> FALSE,
           error |-> "Network error - please check your connection"]}

\* C8: saveHotkeysToAPI settles every outcome of the request by returning a
\* result: ok for a response without an error field, not ok with the server's
\* error for a response with one, not ok with the message of the HTTP status
\* class for an exception; it never rejects.
C8_EveryOutcomeReturned ==
  [][ \A op \in ops, outcome \in ApiOutcomes :
        ( \/ SaveSectionSettle(op, outcome)
          \/ ResetSettle(op, outcome)
          \/ ImportSaveSettle(op, outcome) )
        => saveSettled' \in C8_Reported(outcome)
    ]_vars

\* C9: a confirmed reset leaves the local list equal to the compiled-in defaults,
\* autoTranslatePlatforms true and the dirty state empty, whatever they were, and
\* sends one request with an empty custom_hotkeys map and hotkey_settings
\* autoTranslatePlatforms = true; the answer to the request changes none of them.
C9_ResetYieldsDefaults ==
  [][ /\ handleResetToDefaults(TRUE) =>
           /\ hotkeys' = typedDefaultHotkeys
           /\ autoTranslatePlatforms' = TRUE
           /\ dirtyState' = {}
           /\ Sent = {[custom_hotkeys |-> EmptyMap,
                       hotkey_settings |-> [autoTranslatePlatforms |-> TRUE]]}
      /\ \A op \in ops, outcome \in ApiOutcomes :
           ResetSettle(op, outcome) =>
             UNCHANGED <<hotkeys, autoTranslatePlatforms, dirtyState>>
    ]_vars

\* C9 witness: a reset is in flight that was confirmed with an edited list, the
\* setting off and a dirty section, and the local state is the default one.
C9_Witness ==
  /\ hotkeys = typedDefaultHotkeys /\ autoTranslatePlatforms /\ dirtyState = {}
  /\ \E op \in ops :
       /\ op.kind = "reset"
       /\ op.closure.hotkeys # typedDefaultHotkeys
       /\ ~op.closure.autoTranslatePlatforms
       /\ op.closure.dirtyState # {}

\* C10: when the user declines the confirmation of handleResetToDefaults, no
\* local state variable changes (list, settings, dirty state, isLoading, global
\* toggle, dialog) and no request is sent or stored.
C10_DeclinedResetChangesNothing ==
  [][ handleResetToDefaults(FALSE) => UNCHANGED <<localVars, ops, server>> ]_vars

\* C10 witness: the confirmation was just declined with unsaved edits and no
\* request in flight.
C10_Witness ==
  /\ confirmAnswer = "cancel"
  /\ dirtyState # {}
  /\ ~isLoading /\ ops = {}

\* a list with the bindings of the catalog, as load, key edits and toggles leave it
LoadedShape(list) ==
  /\ Len(list) = Len(typedDefaultHotkeys)
  /\ \A i \in DOMAIN list : list[i].id = typedDefaultHotkeys[i].id

\* the import was given the export of the state it started from
ImportedOwnExport(op) ==
  /\ op.kind = "import"
  /\ op.importedData =
       ExportData(op.closure.hotkeys, op.closure.autoTranslatePlatforms)

ImportSuccessToast ==
  [type |-> "info", message |-> <<"Hotkeys imported successfully", None>>]

\* C11: when the import of the file just exported has been saved and re-fetched
\* from the store that holds what it saved, the local list equals the exported
\* list in every field of every binding, for every list reachable by load, key
\* edits and toggles.
C11_RoundTripIdentical ==
  [][ \A op \in ops :
        ( /\ ImportReloadSettle(op, "ok")
          /\ ImportedOwnExport(op)
          /\ LoadedShape(op.closure.hotkeys)
          /\ server.custom_hotkeys = op.body.custom_hotkeys )
        => hotkeys' = op.closure.hotkeys
    ]_vars

\* C12: when the import of an envelope whose settings carry
\* autoTranslatePlatforms = v has been saved and re-fetched, the local
\* autoTranslatePlatforms is v.
C12_ImportAppliesSettings ==
  [][ \A op \in ops :
        ( /\ ImportReloadSettle(op, "ok")
          /\ ~op.importedData.isArray )
        => \A v \in op.importedData.settingsAuto : autoTranslatePlatforms' = v
    ]_vars

\* C13: when the re-fetch issued after the save of an import fails, the import is
\* not reported as successful and the dirty state is not cleared.
C13_NoSuccessWithoutReread ==
  [][ \A op \in ops :
        ImportReloadSettle(op, "throw") =>
          /\ ImportSuccessToast \notin Range(toast')
          /\ dirtyState' = dirtyState
    ]_vars

\* the step is the end of a loadHotkeysFromAPI, called at mount or by an import
LoadEnds(op, outcome) ==
  LoadSettle(op, outcome) \/ ImportReloadSettle(op, outcome)

\* C14 as stated: whenever the request of a load throws or its response has no
\* custom_hotkeys, the list becomes the merge of the defaults with the cached
\* overrides (the plain defaults without a cache) and a warning is shown.
C14_FallbackAlwaysWarns ==
  [][ \A op \in ops, outcome \in {"nocustom", "throw"} :
        LoadEnds(op, outcome) =>
          /\ hotkeys' = updateHotkeysWithCustomSettings(typedDefaultHotkeys,
                                                        appSettings.customHotkeys)
          /\ LoadErrorToast \in Range(toast')
    ]_vars

\* C14 amended: whenever the request of a load throws or its response has no
\* custom_hotkeys, the list becomes the merge of the defaults with the cached
\* overrides, which is the plain defaults when nothing is cached; the warning is
\* shown when the request throws and not when the response has no custom_hotkeys.
C14_FallbackToCache ==
  [][ \A op \in ops, outcome \in {"nocustom", "throw"} :
        LoadEnds(op, outcome) =>
          /\ \A i \in DOMAIN typedDefaultHotkeys :
               LET cached == appSettings.customHotkeys
                   keyId == LookupKey(typedDefaultHotkeys[i])
               IN IF keyId \in DOMAIN cached
                  THEN /\ hotkeys'[i].id = typedDefaultHotkeys[i].id
                       /\ hotkeys'[i].key = cached[keyId].key
                       /\ hotkeys'[i].active = cached[keyId].active
                  ELSE hotkeys'[i] = typedDefaultHotkeys[i]
          /\ Len(hotkeys') = Len(typedDefaultHotkeys)
          /\ (LoadErrorToast \in Range(toast')) <=> (outcome = "throw")
    ]_vars

\* C14 witness: the load threw, the warning is shown and the list carries the
\* cached override of the delete binding.
C14_Witness ==
  /\ LoadErrorToast \in Range(toast)
  /\ Len(hotkeys) = Len(typedDefaultHotkeys)
  /\ \E i \in DOMAIN hotkeys :
       /\ LookupKey(hotkeys[i]) \in DOMAIN appSettings.customHotkeys
       /\ hotkeys[i].key = appSettings.customHotkeys[LookupKey(hotkeys[i])].key
       /\ hotkeys[i].key # typedDefaultHotkeys[i].key

\* the hotkeys requests in flight
Loads(inflight) ==
  {op \in inflight : op.kind = "load" \/ (op.kind = "import" /\ op.phase = "load")}

\* C15: an invocation of loadHotkeysFromAPI sends exactly one hotkeys request;
\* when the request is answered, with success or failure, the same step ends
\* the load: no request is sent again, isLoading is false and the list has the
\* length of the defaults, which are not empty.
C15_LoadEndsOnAnswer ==
  [][ /\ useEffectMount => Cardinality(Loads(ops') \ Loads(ops)) = 1
      /\ \A op \in ops, outcome \in StoredOutcomes :
           ImportSaveSettle(op, outcome) =>
             Cardinality(Loads(ops') \ Loads(ops)) = 1
      /\ \A op \in ops, outcome \in FetchOutcomes :
           LoadEnds(op, outcome) =>
             /\ Loads(ops') = Loads(ops) \ {op}
             /\ ~isLoading'
             /\ Len(hotkeys') = Len(typedDefaultHotkeys)
             /\ Len(hotkeys') > 0
    ]_vars

\* C15 witness: the only load of the session was answered with a response that
\* had no custom_hotkeys; nothing is pending and the list is shown.
C15_Witness ==
  /\ mounted /\ ops = {} /\ nact = 0
  /\ ~isLoading
  /\ toast = <<>>
  /\ Len(hotkeys) = Len(typedDefaultHotkeys)
  /\ appSettings.customHotkeys # EmptyMap
  /\ hotkeys = updateHotkeysWithCustomSettings(typedDefaultHotkeys,
                                               appSettings.customHotkeys)

\* the item is waiting for a key
Recording == isEditing /\ keyRecordingMode

\* C16: a keydown of Control, Shift, Alt or Meta changes neither the captured key
\* nor the recording flag; while recording, the first keydown of another key sets
\* the captured key and ends recording; Shift, then "a" with Shift held, gives
\* the one capture "shift+a".
C16_ModifiersIgnored ==
  [][ /\ \A physical \in ModifierKeys :
           KeyDown(physical) => UNCHANGED <<editedKey, keyRecordingMode>>
      /\ \A physical \in OtherKeys :
           (Recording /\ KeyDown(physical)) =>
             /\ editedKey' # ""
             /\ ~keyRecordingMode'
      /\ (Recording /\ pressed = <<"Shift">> /\ KeyDown("a")) =>
           editedKey' = "shift+a"
    ]_vars

\* C16 witness: Shift is held and "shift+a" was captured, once.
C16_Witness ==
  /\ isEditing /\ ~keyRecordingMode
  /\ pressed = <<"Shift">>
  /\ editedKey = "shift+a"

\* the lower-cased key of a keydown, by key and Shift
LowerCased(physical, shift) ==
  CASE physical = "a" -> "a"
    [] physical = "1" -> IF shift THEN "!" ELSE "1"
    [] physical = "Enter" -> "enter"

\* the held modifiers in the order ctrl, shift, alt, meta, then the key
Canonical(held, physical) ==
  (IF "Control" \in held THEN "ctrl+" ELSE "")
    \o (IF "Shift" \in held THEN "shift+" ELSE "")
    \o (IF "Alt" \in held THEN "alt+" ELSE "")
    \o (IF "Meta" \in held THEN "meta+" ELSE "")
    \o LowerCased(physical, "Shift" \in held)

\* C17: for every set of held modifiers and every other key, the captured string
\* is the held modifiers in the order ctrl, shift, alt, meta, then the lower-cased
\* key, joined with "+": it depends on the set of modifiers held, not on the
\* order in which they were pressed.
C17_CanonicalOrder ==
  [][ \A physical \in OtherKeys :
        (Recording /\ KeyDown(physical)) =>
          editedKey' = Canonical(Range(pressed), physical)
    ]_vars

\* C17 witness: Shift was pressed before Control, and the capture names ctrl first.
C17_Witness ==
  /\ isEditing /\ ~keyRecordingMode
  /\ pressed = <<"Shift", "Control">>
  /\ editedKey = "ctrl+shift+a"

Updates(inflight) == {op \in inflight : op.phase = "save"}

\* two actions of the same kind given the same binding list and settings
SameAction(op, again) ==
  /\ again.kind = op.kind
  /\ op.kind = "save" =>
       /\ again.closure.hotkeys = op.closure.hotkeys
       /\ again.closure.autoTranslatePlatforms = op.closure.autoTranslatePlatforms

\* C19: when a save or a reset has been stored, the store holds its body, and a
\* pending repetition of it (a save of the same list and settings, for whatever
\* section, or a reset) carries that very body: storing it again leaves the
\* stored override map and settings as they are.
C19_Idempotent ==
  [][ \A op \in ops, outcome \in StoredOutcomes :
        (SaveSectionSettle(op, outcome) \/ ResetSettle(op, outcome)) =>
          /\ server' = op.body
          /\ \A again \in ops' : SameAction(op, again) => again.body = server'
    ]_vars

\* C19 witness: the first of two saves of the same list, sent for different
\* sections, has just been stored and the second is still pending.
C19_Witness ==
  /\ saveSettled.settled = "returned" /\ saveSettled.ok
  /\ \E again \in ops :
       /\ again.kind = "save" /\ again.id = 2
       /\ again.body = server
       /\ server.custom_hotkeys # EmptyMap
       /\ server.custom_hotkeys # StoredOverrides

\* the step is the answer to the updateHotkeys request of the action
UpdateAnswered(op, outcome) ==
  \/ SaveSectionSettle(op, outcome)
  \/ ResetSettle(op, outcome)
  \/ ImportSaveSettle(op, outcome)

\* C20: every save, reset or import sends exactly one updateHotkeys request and
\* no other step sends one; a refused request leaves the stored state untouched,
\* an accepted one makes it the whole body of that request, and so every step
\* leaves the stored state as it was or equal to the body of one request.
C20_NoPartialPersist ==
  [][ /\ \A sectionId \in typedHotkeySections :
           handleSaveSection(sectionId) =>
             Cardinality(Updates(ops') \ Updates(ops)) = 1
      /\ handleResetToDefaults(TRUE) =>
           Cardinality(Updates(ops') \ Updates(ops)) = 1
      /\ \A importedData \in ImportFiles(hotkeys, autoTranslatePlatforms) :
           handleImportHotkeys(importedData) =>
             Cardinality(Updates(ops') \ Updates(ops)) = 1
      /\ nact' = nact => Updates(ops') \subseteq Updates(ops)
      /\ \A op \in ops, outcome \in RefusedOutcomes :
           UpdateAnswered(op, outcome) => server' = server
      /\ \A op \in ops, outcome \in StoredOutcomes :
           UpdateAnswered(op, outcome) => server' = op.body
      /\ \/ server' = server
         \/ \E op \in Updates(ops) : server' = op.body
    ]_vars

\* C20 witness: a request was accepted and stored, a later one was refused, and
\* the store still holds the accepted body, which is not the initial state.
C20_Witness ==
  /\ saveSettled.settled # "none" /\ ~saveSettled.ok
  /\ nact = 2 /\ ops = {}
  /\ \A i \in DOMAIN SessionInits : server # SessionInits[i].server
  /\ server.custom_hotkeys # EmptyMap

InitialLoadDone == mounted /\ \A op \in ops : op.kind # "load"

\* C23: once the initial load has completed, every id of the compiled-in default
\* list is the id of a binding of the local list.
C23_NoBindingDeleted ==
  InitialLoadDone =>
    \A d \in DOMAIN typedDefaultHotkeys :
      \E i \in DOMAIN hotkeys : hotkeys[i].id = typedDefaultHotkeys[d].id

\* C24: when the request of handleSaveSection(s) is accepted, s is no longer
\* dirty and every other section is dirty exactly if it was when the answer
\* arrived, edits made while the request was in flight included; when it is
\* refused, the dirty state is unchanged.
C24_SaveClearsOnlyItsSection ==
  [][ \A op \in ops :
        /\ \A outcome \in StoredOutcomes :
             SaveSectionSettle(op, outcome) =>
               dirtyState' = dirtyState \ {op.section}
        /\ \A outcome \in RefusedOutcomes :
             SaveSectionSettle(op, outcome) => dirtyState' = dirtyState
    ]_vars

\* C25: the request of an import carries, as hotkey_settings, the
\* autoTranslatePlatforms of the envelope's settings when it has one, and the
\* local value for a bare list or an envelope without settings.
C25_ImportPersistsSettings ==
  [][ \A importedData \in ImportFiles(hotkeys, autoTranslatePlatforms) :
        handleImportHotkeys(importedData) =>
          \A body \in Sent :
            body.hotkey_settings.autoTranslatePlatforms =
              IF ImportedSettingsAuto(importedData) = {}
              THEN autoTranslatePlatforms
              ELSE CHOOSE v \in ImportedSettingsAuto(importedData) : TRUE
    ]_vars

\* C26: handleImportHotkeys sends no hotkeys request before its updateHotkeys
\* request is answered; it sends one, its own, when the request is accepted and
\* none when it is refused.
C26_PersistThenReread ==
  [][ /\ \A importedData \in ImportFiles(hotkeys, autoTranslatePlatforms) :
           handleImportHotkeys(importedData) => Loads(ops') = Loads(ops)
      /\ \A op \in ops :
           /\ \A outcome \in StoredOutcomes :
                ImportSaveSettle(op, outcome) =>
                  /\ Loads(ops') \ Loads(ops) = {[op EXCEPT !.phase = "load"]}
                  /\ server' = op.body
           /\ \A outcome \in RefusedOutcomes :
                ImportSaveSettle(op, outcome) =>
                  /\ Loads(ops') = Loads(ops)
                  /\ \A o \in ops' : o.id # op.id
    ]_vars

\* C26 witness: the save of an import was refused with an error response and
\* the import ended there, with no request pending.
C26_Witness ==
  /\ ops = {}
  /\ saveSettled = [settled |-> "returned", ok |-> FALSE, error |-> "Invalid hotkey"]
  /\ toast = <<[type |-> "error",
                message |-> <<"Error importing hotkeys: ", "Invalid hotkey">>]>>
  /\ ~isLoading

\* C27: when the save of a list with the bindings of the catalog is stored, a
\* load answered with the stored override map yields a list in which every
\* binding has the key, the active flag and the label of the saved list, the
\* label being the description the save sent for it.
C27_SaveThenLoadAgrees ==
  [][ \A op \in ops, outcome \in StoredOutcomes :
        (SaveSectionSettle(op, outcome) /\ LoadedShape(op.closure.hotkeys)) =>
          LET saved == op.closure.hotkeys
              loaded == updateHotkeysWithCustomSettings(typedDefaultHotkeys,
                                                        server'.custom_hotkeys)
          IN \A i \in DOMAIN saved :
               /\ loaded[i].id = saved[i].id
               /\ loaded[i].key = saved[i].key
               /\ loaded[i].active = saved[i].active
               /\ loaded[i].label = saved[i].label
               /\ loaded[i].label = op.body.custom_hotkeys[LookupKey(saved[i])].description
    ]_vars

\* C27 witness: a list with an edited key, a disabled binding and a label that
\* came from a stored description has just been saved.
C27_Witness ==
  /\ saveSettled.settled = "returned" /\ saveSettled.ok
  /\ LoadedShape(hotkeys)
  /\ server.custom_hotkeys = ToCustomHotkeys(hotkeys)
  /\ \E i \in DOMAIN hotkeys :
       /\ hotkeys[i].label # typedDefaultHotkeys[i].label
       /\ hotkeys[i].key # typedDefaultHotkeys[i].key
       /\ ~hotkeys[i].active
  /\ server.custom_hotkeys # StoredOverrides

\* C28: when the user has edited a key or toggled a binding while the initial
\* hotkeys request was in flight (its section is dirty when the response
\* arrives), the bindings of that section are after the response what they were
\* before it.
C28_LoadKeepsLaterChanges ==
  [][ \A op \in ops, outcome \in FetchOutcomes :
        LoadSettle(op, outcome) =>
          \A s \in dirtyState :
            SelectSeq(hotkeys', LAMBDA h : h.section = s)
              = SelectSeq(hotkeys, LAMBDA h : h.section = s)
    ]_vars

\* the key and active flag the store holds for a binding: its override, or the
\* default of its section:element
StoredValue(hotkey) ==
  IF LookupKey(hotkey) \in DOMAIN server.custom_hotkeys
  THEN server.custom_hotkeys[LookupKey(hotkey)]
  ELSE LET d == CHOOSE i \in DOMAIN typedDefaultHotkeys :
                  LookupKey(typedDefaultHotkeys[i]) = LookupKey(hotkey)
       IN typedDefaultHotkeys[d]

\* C29: with no request in flight (in a session that starts with nothing stored
\* and nothing cached, so that the stored values are those of the store), a
\* binding whose key or active flag differs from the stored one is in a section
\* marked dirty.
C29_UnsavedEditsAreDirty ==
  ( /\ ops = {} /\ mounted
    /\ appSettings.customHotkeys = EmptyMap )
  => \A i \in DOMAIN hotkeys :
       ( \/ hotkeys[i].key # StoredValue(hotkeys[i]).key
         \/ hotkeys[i].active # StoredValue(hotkeys[i]).active )
       => hotkeys[i].section \in dirtyState

\* C30: whenever a hotkeys or updateHotkeys request is in flight, isLoading is
\* true.
C30_LoadingCoversRequests ==
  ops # {} => isLoading

\* the binding list whose map the request of an action carries
SentList(op) ==
  IF op.kind = "save" THEN op.closure.hotkeys
  ELSE IF op.kind = "reset" THEN <<>>
  ELSE op.importedData.hotkeys

\* C22: the saves of two sessions are last-write-wins over the full set: when
\* the server accepts a request of either session, the stored override map is
\* exactly the map of that request, which is the map of the whole list the
\* session sent, and no entry stored before that the request does not carry
\* survives.
C22_LastWriteWins ==
  [][ /\ \A op \in ops, outcome \in StoredOutcomes :
           UpdateAnswered(op, outcome) =>
             /\ op.body.custom_hotkeys = ToCustomHotkeys(SentList(op))
             /\ server'.custom_hotkeys = op.body.custom_hotkeys
             /\ \A keyId \in DOMAIN server.custom_hotkeys :
                  keyId \notin DOMAIN op.body.custom_hotkeys
                    => keyId \notin DOMAIN server'.custom_hotkeys
      /\ \A body \in OtherSessionBodies :
           OtherSessionSave(body) =>
             /\ server'.custom_hotkeys = body.custom_hotkeys
             /\ \A keyId \in DOMAIN server.custom_hotkeys :
                  keyId \notin DOMAIN body.custom_hotkeys
                    => keyId \notin DOMAIN server'.custom_hotkeys
    ]_vars

\* C22 witness: both sessions have saved, this one first (its last request was
\* accepted) and the other one last: the store holds the four entries of the
\* other session's list, which this session never sends, and none of this
\* session's values where the two differ.
C22_Witness ==
  /\ saveSettled.settled = "returned" /\ saveSettled.ok
  /\ server.custom_hotkeys = ToCustomHotkeys(OtherSessionHotkeys)
  /\ <<"annotation", "zoom">> \in DOMAIN server.custom_hotkeys
  /\ \E i \in DOMAIN hotkeys :
       /\ LookupKey(hotkeys[i]) = <<"annotation", "redo">>
       /\ hotkeys[i].key # server.custom_hotkeys[<<"annotation", "redo">>].key

\* the step changes the binding hotkeyId of the list to changed(that binding) and
\* nothing else of the list, and adds the binding's section to the dirty ones
TouchesOnly(hotkeyId, changed(_)) ==
  /\ Len(hotkeys') = Len(hotkeys)
  /\ \A i \in DOMAIN hotkeys :
       hotkeys'[i] = IF hotkeys[i].id = hotkeyId THEN changed(hotkeys[i])
                     ELSE hotkeys[i]
  /\ \E i \in DOMAIN hotkeys :
       /\ hotkeys[i].id = hotkeyId
       /\ dirtyState' = dirtyState \cup {hotkeys[i].section}

\* the binding with its active flag flipped
Flipped(hotkey) == [hotkey EXCEPT !.active = ~hotkey.active]

\* C31: a toggle of h flips the active flag of h and an applied key edit sets
\* key and mac of h to the new key (an edit confirmed for a binding that has left
\* the list since the dialog opened changes nothing); neither changes another field or another
\* binding, the length or the order of the list; both add the section of h to
\* the dirty sections and change no other dirty flag; and flipping h once more
\* in the list a toggle produced gives back the list it started from.
C31_TouchesOnlyTarget ==
  [][ /\ \A hotkeyId \in HotkeyIds :
           handleToggleHotkey(hotkeyId) =>
             /\ TouchesOnly(hotkeyId, Flipped)
             /\ [i \in DOMAIN hotkeys' |->
                   IF hotkeys'[i].id = hotkeyId THEN Flipped(hotkeys'[i])
                   ELSE hotkeys'[i]] = hotkeys
      /\ \A hotkeyId \in HotkeyIds, newKey \in RecordedKeys :
           (handleSaveHotkey(hotkeyId, newKey) /\ ~duplicateConfirmDialog'.open) =>
             TouchesOnly(hotkeyId,
                         LAMBDA h : [h EXCEPT !.key = newKey, !.mac = newKey])
      /\ handleConfirmDuplicate =>
           IF \E i \in DOMAIN hotkeys :
                hotkeys[i].id = duplicateConfirmDialog.hotkeyId
           THEN TouchesOnly(duplicateConfirmDialog.hotkeyId,
                  LAMBDA h : [h EXCEPT !.key = duplicateConfirmDialog.newKey,
                                       !.mac = duplicateConfirmDialog.newKey])
           ELSE UNCHANGED <<hotkeys, dirtyState>>
    ]_vars

\* C31 witness: a key of section annotation was edited and the binding of section
\* regions was toggled off; both sections are dirty and the rest of the list is
\* the catalog's.
C31_Witness ==
  /\ dirtyState = {"annotation", "regions"}
  /\ Len(hotkeys) = Len(typedDefaultHotkeys)
  /\ hotkeys[1] = [typedDefaultHotkeys[1] EXCEPT !.key = "a", !.mac = "a"]
  /\ hotkeys[2] = typedDefaultHotkeys[2]
  /\ hotkeys[3] = Flipped(typedDefaultHotkeys[3])

\* C32: in the item, before and after every step, the recording flag being set
\* implies that the captured key is the empty string; and every Apply happens
\* with the recording flag clear and submits a non-empty key.
C32_RecordingMeansNoKey ==
  [][ /\ keyRecordingMode => editedKey = ""
      /\ keyRecordingMode' => editedKey' = ""
      /\ \A applied \in BOOLEAN :
           handleSave(applied) => (~keyRecordingMode /\ editedKey # "")
    ]_vars

\* C32 witness: the item is in edit mode and recording, Alt is held, and nothing
\* is captured.
C32_Witness ==
  /\ isEditing /\ keyRecordingMode
  /\ editedKey = ""
  /\ pressed = <<"Alt">>

\* the URL a call of openHotkeyHelp matched against, as a set: the argument when
\* it is a URL, the page's URL when no (or an empty) argument was given, none
\* when section names were given
UrlInput(modal) ==
  IF ~Truthy(modal.sectionOrUrl) THEN {modal.currentUrl}
  ELSE IF ~modal.sectionOrUrl.isArray /\ LooksLikeUrl(modal.sectionOrUrl.value[1])
  THEN {modal.sectionOrUrl.value[1]}
  ELSE {}

\* the mappings whose expression matches the URL
Matching(url) == {n \in DOMAIN urlMappings : RegexTest(urlMappings[n].regex, url)}

\* the first place a section is named at among the matching mappings: the
\* mapping and the position in its list
FirstNamed(url, section) ==
  LET n == CHOOSE n \in Matching(url) :
             /\ section \in Range(urlMappings[n].section)
             /\ \A k \in Matching(url) :
                  section \in Range(urlMappings[k].section) => n <= k
      p == CHOOSE p \in DOMAIN urlMappings[n].section :
             /\ urlMappings[n].section[p] = section
             /\ \A q \in DOMAIN urlMappings[n].section :
                  urlMappings[n].section[q] = section => p <= q
  IN <<n, p>>

\* a comes before b
Before(a, b) == a[1] < b[1] \/ (a[1] = b[1] /\ a[2] < b[2])

\* the first index of a name in a list
FirstIndex(list, name) ==
  CHOOSE i \in DOMAIN list :
    list[i] = name /\ \A j \in DOMAIN list : list[j] = name => i <= j

\* the ids of all catalog sections
AllSectionIds == [i \in DOMAIN sections |-> sections[i].id]

\* C33: the sections every opened help modal shows are a list without
\* duplicates, not empty; for a URL (given, or the page's when nothing is given)
\* they are the sections of all matching mappings, each once, in mapping order;
\* for section names they are the names given, each once, in the order given;
\* and when no section was identified they are the ids of all catalog sections.
C33_SectionsToShow ==
  \A m \in DOMAIN helpModals :
    LET modal == helpModals[m]
        out == modal.sectionsToShow
    IN /\ \A i, j \in DOMAIN out : i # j => out[i] # out[j]
       /\ Len(sections) > 0 => Len(out) > 0
       /\ IF UrlInput(modal) # {}
          THEN LET url == CHOOSE u \in UrlInput(modal) : TRUE
                   identified ==
                     UNION {Range(urlMappings[n].section) : n \in Matching(url)}
               IN IF identified = {} THEN out = AllSectionIds
                  ELSE /\ Range(out) = identified
                       /\ \A i, j \in DOMAIN out :
                            i < j => Before(FirstNamed(url, out[i]),
                                            FirstNamed(url, out[j]))
          ELSE LET names == modal.sectionOrUrl.value
               IN IF names = <<>> THEN out = AllSectionIds
                  ELSE /\ Range(out) = Range(names)
                       /\ \A i, j \in DOMAIN out :
                            i < j => FirstIndex(names, out[i]) < FirstIndex(names, out[j])

\* C33 witness: one modal was opened for a URL that three mappings match, two of
\* them naming sections the first had named, and one with no argument on a page
\* whose mappings name the sections in the reverse of the catalog order.
C33_Witness ==
  /\ Len(helpModals) = 2
  /\ helpModals[1].sectionOrUrl = StringArgument("/projects/1/data?task=2")
  /\ Matching("/projects/1/data?task=2") = {1, 2, 3}
  /\ helpModals[1].sectionsToShow = <<"annotation", "regions">>
  /\ helpModals[2].sectionOrUrl = NoArgument
  /\ helpModals[2].currentUrl = "/projects/1/data"
  /\ helpModals[2].sectionsToShow = <<"regions", "annotation">>

\* after the step, every closed modal has had its container removed once and
\* its listener unregistered once, and there are as many containers attached as
\* listeners registered
CleanedUp ==
  /\ \A i \in DOMAIN helpModals' :
       i \notin bodyChildren' =>
         /\ helpModals'[i].removed = 1
         /\ helpModals'[i].unregistered = 1
         /\ i \notin Range(keydownListeners')
  /\ Cardinality(bodyChildren') = Len(keydownListeners')

\* C34: after every step of opening, Escape, backdrop, close-button or Customize
\* clicks and calls of the returned close(), the closed modals are cleaned up
\* exactly once and containers and listeners are equal in number; and close()
\* of a modal that is already closed changes nothing and raises no error.
C34_CleanupIdempotent ==
  [][ /\ CleanedUp
      /\ \A modalRoot \in DOMAIN helpModals :
           (modalRoot \notin bodyChildren /\ ModalReturnClose(modalRoot)) =>
             /\ UNCHANGED <<helpModals, bodyChildren, keydownListeners>>
             /\ helpError' = None
    ]_vars

====
